---- MODULE Spec2Model ----
(***************************************************************************)
(* Model of reddit_bot.py: main() creates the Reddit session and runs      *)
(* monitor_comments(), a single synchronous loop over the comment stream.  *)
(* Strings are sequences of one-character strings over a small alphabet:   *)
(* an upper/lower-case letter pair, a whitespace character and a           *)
(* punctuation character.  The platform (comment creation, the stream, the *)
(* outcomes of the network calls) is the environment.                      *)
(***************************************************************************)
EXTENDS Integers, Sequences, FiniteSets, TLC

\* ------------------------------------------------------------------ bounds
MaxLen == 3
MaxBody == 2
MaxComments == 3
MaxRuns == 2
MaxDeliveries == 2

\* --------------------------------------------------------------- constants
SHORT_DELAY == 2
LONG_DELAY == 5
HISTORY_LIMIT == 100
EXIT_OK == 0
EXIT_ERROR == 1

\* ----------------------------------------------------------------- strings
Alphabet == {"a", "A", " ", "!"}
Whitespace == {" "}
StringsUpTo(k) == UNION {[1..n -> Alphabet] : n \in 0..k}

\* str.lower() on one character
LowerChar(c) == IF c = "A" THEN "a" ELSE c

\* str.lower()
Lower(s) == [i \in 1..Len(s) |-> LowerChar(s[i])]

RECURSIVE LStrip(_)
LStrip(s) == IF s # <<>> /\ Head(s) \in Whitespace THEN LStrip(Tail(s)) ELSE s

RECURSIVE RStrip(_)
RStrip(s) ==
    IF s # <<>> /\ s[Len(s)] \in Whitespace THEN RStrip(SubSeq(s, 1, Len(s) - 1)) ELSE s

\* str.strip()
Strip(s) == RStrip(LStrip(s))

NormalizeNoStrip(s) == Lower(s)

NormalizeNoLower(s) == Strip(s)

\* x.strip().lower(), as applied to trigger_phrase and to comment.body
Normalize(s) == Lower(Strip(s))

\* the match test of monitor_comments: the normalized body against the
\* normalized trigger phrase
Matches(body, trigger) == Normalize(body) = Normalize(trigger)

\* ---------------------------------------------------------------- comments
BotName == "bot"
OtherName == "other"
NoAuthor == "None"
Unreadable == "raises"
MeRaises == "me_raises"

\* what reading comment.author / comment.author.name gives
Authors == {BotName, OtherName, NoAuthor, Unreadable}
\* what reading comment.body gives: a string, or (raises) an exception
BodiesUpTo(k) ==
    [text : StringsUpTo(k), raises : {FALSE}] \cup {[text |-> <<>>, raises |-> TRUE]}
Bodies == BodiesUpTo(MaxBody)
\* what reddit.user.me() gives: the session's own account, or an exception
MeResults == {BotName, MeRaises}

NoComment == [id |-> 0, author |-> NoAuthor, body |-> <<>>, body_raises |-> FALSE]

\* main(): TRIGGER_PHRASE, abbreviated to a mixed-case phrase over Alphabet
TRIGGER_PHRASE == <<"A">>

\* main(): REPLY_TEXT, abbreviated to a phrase over Alphabet that does not
\* normalize to the trigger phrase
REPLY_TEXT == <<"A", "a">>

NoExit == -1

VARIABLES
    pc,                 \* position of the program
    exit_code,          \* the process's exit code, NoExit while it runs
    session,            \* "none", "ok" or "failed": create_reddit_instance's result
    creates,            \* calls of create_reddit_instance in this run
    stream_state,       \* "closed", "open", "ended" or "raised"
    opens,              \* times the stream was opened in this run
    created,            \* comments created on the platform so far (ids 1..created)
    subscribed_at,      \* value of created when the stream was opened
    cursor,             \* id of the last comment the stream has yielded or skipped
    cur,                \* the comment in handling (kept until the next is received)
    trigger_phrase,     \* monitor_comments' parameter
    trigger_normalized,
    body_normalized,
    trail,              \* what happened to cur so far, in order
    delay,              \* the pending time.sleep argument
    replies,            \* ids of the comments comment.reply was called on, in order
    run_attempts,       \* calls of comment.reply in this run
    runs,               \* process starts so far
    reply_text,         \* monitor_comments' parameter
    bot_replies,        \* ids of the comments that are replies posted by the bot
    delivered,          \* comments the stream has delivered in this run
    deliveries,         \* times the stream has delivered cur
    prev_trail          \* the trail of the previous delivery of cur

vars == <<pc, exit_code, session, creates, stream_state, opens, created, subscribed_at, cursor,
          cur, trigger_phrase, trigger_normalized, body_normalized, trail, delay,
          replies, run_attempts, runs, reply_text, bot_replies, delivered, deliveries,
          prev_trail>>

aux == <<reply_text, bot_replies, delivered, deliveries, prev_trail>>

platform == <<created, replies>>
handling == <<cur, body_normalized, trail, delay>>
config == <<trigger_phrase, trigger_normalized>>
stream == <<stream_state, opens, subscribed_at, cursor>>

Ev(e) == [ev |-> e, id |-> cur.id]

MeEv(me) == Ev(IF me = MeRaises THEN "me_failed" ELSE "me_ok")

Max(a, b) == IF a >= b THEN a ELSE b

\* a fresh process about to enter main()
ProcessStart ==
    /\ pc = "main"
    /\ exit_code = NoExit
    /\ session = "none"
    /\ creates = 0
    /\ stream_state = "closed"
    /\ opens = 0
    /\ subscribed_at = 0
    /\ cursor = 0
    /\ cur = NoComment
    /\ trigger_phrase = TRIGGER_PHRASE
    /\ trigger_normalized = <<>>
    /\ body_normalized = <<>>
    /\ trail = <<>>
    /\ delay = 0
    /\ run_attempts = 0
    /\ delivered = 0
    /\ deliveries = 0
    /\ prev_trail = <<>>

Init ==
    /\ ProcessStart
    /\ created \in 0..1
    /\ replies = <<>>
    /\ runs = 1
    /\ reply_text = REPLY_TEXT
    /\ bot_replies = {}

\* ------------------------------------------------------------------ main()
CreateOk ==
    /\ pc = "main"
    /\ session' = "ok"
    /\ creates' = creates + 1
    /\ pc' = "monitor"
    /\ UNCHANGED <<exit_code, stream, platform, handling, config, run_attempts, runs, aux>>

CreateFailsRetried ==
    /\ pc = "main"
    /\ creates < 2
    /\ session' = "failed"
    /\ creates' = creates + 1
    /\ pc' = "main"
    /\ UNCHANGED <<exit_code, stream, platform, handling, config, run_attempts, runs, aux>>

\* praw.Reddit(...) raises: nothing in main() catches it
CreateFails ==
    /\ pc = "main"
    /\ session' = "failed"
    /\ creates' = creates + 1
    /\ pc' = "crashed"
    /\ exit_code' = EXIT_ERROR
    /\ UNCHANGED <<stream, platform, handling, config, run_attempts, runs, aux>>

\* ------------------------------------------------------ monitor_comments()
SkipExistingOff == FALSE

\* the skip_existing argument of subreddit.stream.comments
SKIP_EXISTING == TRUE

\* up to the loop: normalize the trigger, log the start, open the stream
StartMonitor ==
    /\ pc = "monitor"
    /\ trigger_normalized' = Normalize(trigger_phrase)
    /\ stream_state' = "open"
    /\ opens' = opens + 1
    /\ subscribed_at' = created
    /\ cursor' = IF SKIP_EXISTING THEN created ELSE Max(0, created - HISTORY_LIMIT)
    /\ pc' = "receive"
    /\ UNCHANGED <<exit_code, session, creates, platform, handling, trigger_phrase, run_attempts, runs, aux>>

\* the for statement gets the next comment
StreamYields ==
    /\ pc = "receive"
    /\ cursor < created
    /\ IF cursor + 1 \in bot_replies
       THEN cur' = [id |-> cursor + 1, author |-> BotName, body |-> reply_text,
                    body_raises |-> FALSE]
       ELSE \E a \in Authors, b \in Bodies :
               cur' = [id |-> cursor + 1, author |-> a, body |-> b.text,
                       body_raises |-> b.raises]
    /\ cursor' = cursor + 1
    /\ trail' = <<>>
    /\ delivered' = delivered + 1
    /\ deliveries' = 1
    /\ prev_trail' = <<>>
    /\ pc' = "self"
    /\ UNCHANGED <<exit_code, session, creates, stream_state, opens, subscribed_at, platform,
                   body_normalized, delay, config, run_attempts, runs, reply_text,
                   bot_replies>>

\* the for statement gets the comment it has just handled once more
StreamRedelivers ==
    /\ pc = "receive"
    /\ cur # NoComment
    /\ deliveries < MaxDeliveries
    /\ prev_trail' = trail
    /\ trail' = <<>>
    /\ delivered' = delivered + 1
    /\ deliveries' = deliveries + 1
    /\ pc' = "self"
    /\ UNCHANGED <<exit_code, session, creates, stream, platform, cur, body_normalized,
                   delay, config, run_attempts, runs, reply_text, bot_replies>>

StreamRaisesSwallowed ==
    /\ pc = "receive"
    /\ stream_state' = "raised"
    /\ pc' = "exited"
    /\ exit_code' = EXIT_OK
    /\ UNCHANGED <<session, creates, opens, subscribed_at, cursor, platform, handling, config,
                   run_attempts, runs, aux>>

\* the iterator is exhausted: the for statement ends, monitor_comments returns,
\* main returns 0 and the script raises SystemExit(0)
StreamEnds ==
    /\ pc = "receive"
    /\ stream_state' = "ended"
    /\ pc' = "exited"
    /\ exit_code' = EXIT_OK
    /\ UNCHANGED <<session, creates, opens, subscribed_at, cursor, platform, handling, config,
                   run_attempts, runs, aux>>

StreamRaisesReconnects ==
    /\ pc = "receive"
    /\ stream_state' = "raised"
    /\ pc' = "monitor"
    /\ UNCHANGED <<exit_code, session, creates, opens, subscribed_at, cursor, platform,
                   handling, config, run_attempts, runs, aux>>

\* the iterator raises: nothing catches it
StreamRaises ==
    /\ pc = "receive"
    /\ stream_state' = "raised"
    /\ pc' = "crashed"
    /\ exit_code' = EXIT_ERROR
    /\ UNCHANGED <<session, creates, opens, subscribed_at, cursor, platform, handling, config,
                   run_attempts, runs, aux>>

NeverSelf(me, author) == FALSE

SelfWhenUnknown(me, author) == me = MeRaises \/ (me = BotName /\ author = BotName)

SelfWhenNoAuthor(me, author) == me = BotName /\ author \in {BotName, NoAuthor}

\* whether the try block reaches its continue: me() returned an account, the comment
\* has an author that can be read, and the two names are equal
SelfAuthored(me, author) ==
    /\ me \notin {MeRaises}
    /\ author \notin {NoAuthor, Unreadable}
    /\ author = me

CheckSelfNoTry ==
    /\ pc = "self"
    /\ \E me \in MeResults :
          IF me = MeRaises \/ cur.author = Unreadable
          THEN /\ trail' = Append(trail, MeEv(me))
               /\ pc' = "crashed"
               /\ exit_code' = EXIT_ERROR
          ELSE /\ exit_code' = exit_code
               /\ IF SelfAuthored(me, cur.author)
                  THEN /\ trail' = trail \o <<MeEv(me), Ev("skip")>>
                       /\ pc' = "receive"
                  ELSE /\ trail' = Append(trail, MeEv(me))
                       /\ pc' = "compare"
    /\ UNCHANGED <<session, creates, stream, platform, cur, body_normalized, delay,
                   config, run_attempts, runs, aux>>

\* the try block around reddit.user.me() and the author comparison
CheckSelf ==
    /\ pc = "self"
    /\ \E me \in MeResults :
          IF SelfAuthored(me, cur.author)
          THEN /\ trail' = trail \o <<MeEv(me), Ev("skip")>>
               /\ pc' = "receive"
          ELSE /\ trail' = Append(trail, MeEv(me))
               /\ pc' = "compare"
    /\ UNCHANGED <<exit_code, session, creates, stream, platform, cur, body_normalized, delay,
                   config, run_attempts, runs, aux>>

\* comment.body.strip().lower() raises, outside of any try block
BodyRaises ==
    /\ pc = "compare"
    /\ cur.body_raises
    /\ pc' = "crashed"
    /\ exit_code' = EXIT_ERROR
    /\ UNCHANGED <<session, creates, stream, platform, handling, config, run_attempts, runs, aux>>

CompareSleepsOnNoMatch ==
    /\ pc = "compare"
    /\ ~cur.body_raises
    /\ body_normalized' = Normalize(cur.body)
    /\ IF body_normalized' = trigger_normalized
       THEN /\ pc' = "reply"
            /\ delay' = delay
            /\ trail' = Append(trail, Ev("match"))
       ELSE /\ pc' = "sleep"
            /\ delay' = SHORT_DELAY
            /\ trail' = Append(trail, Ev("no_match"))
    /\ UNCHANGED <<exit_code, session, creates, stream, platform, cur, config,
                   run_attempts, runs, aux>>

CompareDedup ==
    /\ pc = "compare"
    /\ ~cur.body_raises
    /\ body_normalized' = Normalize(cur.body)
    /\ IF /\ body_normalized' = trigger_normalized
          /\ ~\E i \in 1..Len(replies) : replies[i] = cur.id
       THEN /\ pc' = "reply"
            /\ trail' = Append(trail, Ev("match"))
       ELSE /\ pc' = "receive"
            /\ trail' = Append(trail, Ev("no_match"))
    /\ UNCHANGED <<exit_code, session, creates, stream, platform, cur, delay, config,
                   run_attempts, runs, aux>>

\* normalize the body and compare it to the normalized trigger
Compare ==
    /\ pc = "compare"
    /\ ~cur.body_raises
    /\ body_normalized' = Normalize(cur.body)
    /\ IF body_normalized' = trigger_normalized
       THEN /\ pc' = "reply"
            /\ trail' = Append(trail, Ev("match"))
       ELSE /\ pc' = "receive"
            /\ trail' = Append(trail, Ev("no_match"))
    /\ UNCHANGED <<exit_code, session, creates, stream, platform, cur, delay, config,
                   run_attempts, runs, aux>>

\* the platform's side of a successful comment.reply: the reply is a new
\* comment of the bot in the monitored subreddits (not tracked beyond
\* MaxComments comments)
PostReply ==
    IF created < MaxComments
    THEN /\ created' = created + 1
         /\ bot_replies' = bot_replies \cup {created + 1}
    ELSE UNCHANGED <<created, bot_replies>>

ReplySucceedsNoSleep ==
    /\ pc = "reply"
    /\ trail' = trail \o <<Ev("log_info"), Ev("reply_ok")>>
    /\ replies' = Append(replies, cur.id)
    /\ run_attempts' = run_attempts + 1
    /\ pc' = "receive"
    /\ PostReply
    /\ UNCHANGED <<exit_code, session, creates, stream, cur, body_normalized, delay,
                   config, runs, reply_text, delivered, deliveries, prev_trail>>

\* the try block: log the reply, comment.reply(reply_text) returns
ReplySucceeds ==
    /\ pc = "reply"
    /\ trail' = trail \o <<Ev("log_info"), Ev("reply_ok")>>
    /\ replies' = Append(replies, cur.id)
    /\ run_attempts' = run_attempts + 1
    /\ delay' = SHORT_DELAY
    /\ pc' = "sleep"
    /\ PostReply
    /\ UNCHANGED <<exit_code, session, creates, stream, cur, body_normalized, config, runs,
                   reply_text, delivered, deliveries, prev_trail>>

ReplyFailsPropagates ==
    /\ pc = "reply"
    /\ trail' = trail \o <<Ev("log_info"), Ev("reply_failed")>>
    /\ replies' = Append(replies, cur.id)
    /\ run_attempts' = run_attempts + 1
    /\ pc' = "crashed"
    /\ exit_code' = EXIT_ERROR
    /\ UNCHANGED <<session, creates, stream, created, cur, body_normalized, delay, config, runs, aux>>

ReplyFailsNoInfo ==
    /\ pc = "reply"
    /\ trail' = trail \o <<Ev("reply_failed"), Ev("log_error")>>
    /\ replies' = Append(replies, cur.id)
    /\ run_attempts' = run_attempts + 1
    /\ delay' = LONG_DELAY
    /\ pc' = "sleep"
    /\ UNCHANGED <<exit_code, session, creates, stream, created, cur, body_normalized,
                   config, runs, aux>>

ReplyFailsShortDelay ==
    /\ pc = "reply"
    /\ trail' = trail \o <<Ev("log_info"), Ev("reply_failed"), Ev("log_error")>>
    /\ replies' = Append(replies, cur.id)
    /\ run_attempts' = run_attempts + 1
    /\ delay' = SHORT_DELAY
    /\ pc' = "sleep"
    /\ UNCHANGED <<exit_code, session, creates, stream, created, cur, body_normalized,
                   config, runs, aux>>

ReplyFailsRetried ==
    /\ pc = "reply"
    /\ run_attempts <= delivered
    /\ trail' = trail \o <<Ev("log_info"), Ev("reply_failed"), Ev("log_error")>>
    /\ replies' = Append(replies, cur.id)
    /\ run_attempts' = run_attempts + 1
    /\ IF run_attempts < delivered
       THEN delay' = delay /\ pc' = "reply"
       ELSE delay' = LONG_DELAY /\ pc' = "sleep"
    /\ UNCHANGED <<exit_code, session, creates, stream, created, cur, body_normalized,
                   config, runs, aux>>

\* the try block: log the reply, comment.reply(reply_text) raises; the except
\* block logs the error
ReplyFails ==
    /\ pc = "reply"
    /\ trail' = trail \o <<Ev("log_info"), Ev("reply_failed"), Ev("log_error")>>
    /\ replies' = Append(replies, cur.id)
    /\ run_attempts' = run_attempts + 1
    /\ delay' = LONG_DELAY
    /\ pc' = "sleep"
    /\ UNCHANGED <<exit_code, session, creates, stream, created, cur, body_normalized, config, runs, aux>>

\* time.sleep(delay) returns; the loop goes on to the next comment (the trail
\* entry carries the slept delay in its id field)
Sleep ==
    /\ pc = "sleep"
    /\ trail' = Append(trail, [ev |-> "sleep", id |-> delay])
    /\ delay' = 0
    /\ pc' = "receive"
    /\ UNCHANGED <<exit_code, session, creates, stream, platform, cur, body_normalized, config,
                   run_attempts, runs, aux>>

\* ------------------------------------------------------------- environment
\* somebody posts a comment in the monitored subreddits
NewComment ==
    /\ created < MaxComments
    /\ created' = created + 1
    /\ UNCHANGED <<pc, exit_code, session, creates, stream, replies, handling, config,
                   run_attempts, runs, aux>>

\* the script is run again after the process has ended
Restart ==
    /\ pc \in {"crashed", "exited"}
    /\ runs < MaxRuns
    /\ runs' = runs + 1
    /\ pc' = "main"
    /\ exit_code' = NoExit
    /\ session' = "none"
    /\ creates' = 0
    /\ stream_state' = "closed"
    /\ opens' = 0
    /\ subscribed_at' = 0
    /\ cursor' = 0
    /\ cur' = NoComment
    /\ trigger_normalized' = <<>>
    /\ body_normalized' = <<>>
    /\ trail' = <<>>
    /\ delay' = 0
    /\ run_attempts' = 0
    /\ delivered' = 0
    /\ deliveries' = 0
    /\ prev_trail' = <<>>
    /\ UNCHANGED <<platform, trigger_phrase, reply_text, bot_replies>>

Next ==
    \/ CreateOk
    \/ CreateFails
    \/ StartMonitor
    \/ StreamYields
    \/ StreamEnds
    \/ StreamRaises
    \/ CheckSelf
    \/ BodyRaises
    \/ Compare
    \/ ReplySucceeds
    \/ ReplyFails
    \/ Sleep
    \/ NewComment
    \/ Restart

Spec == Init /\ [][Next]_vars

\* ----------------------------------- one run over a stream that may repeat
\* monitor_comments at the top of its loop, the stream just opened, one
\* comment of somebody else waiting; later comments are the bot's replies
InitRedeliver ==
    /\ pc = "receive"
    /\ exit_code = NoExit
    /\ session = "ok"
    /\ creates = 1
    /\ stream_state = "open"
    /\ opens = 1
    /\ created = 1
    /\ subscribed_at = 0
    /\ cursor = 0
    /\ cur = NoComment
    /\ trigger_phrase = TRIGGER_PHRASE
    /\ trigger_normalized = Normalize(TRIGGER_PHRASE)
    /\ body_normalized = <<>>
    /\ trail = <<>>
    /\ delay = 0
    /\ replies = <<>>
    /\ run_attempts = 0
    /\ runs = 1
    /\ reply_text = REPLY_TEXT
    /\ bot_replies = {}
    /\ delivered = 0
    /\ deliveries = 0
    /\ prev_trail = <<>>

NextRedeliver ==
    \/ StreamYields
    \/ StreamRedelivers
    \/ CheckSelf
    \/ BodyRaises
    \/ Compare
    \/ ReplySucceeds
    \/ ReplyFails
    \/ Sleep

SpecRedeliver == InitRedeliver /\ [][NextRedeliver]_vars

\* ------------------------------- the bot alone with one comment of another
\* reply texts: the configured one, and one that normalizes to the trigger
ReplyTexts == {REPLY_TEXT, <<"a", " ">>}

\* monitor_comments at the top of its loop, called with either reply text; one
\* comment of somebody else is waiting, every later comment is a reply of the
\* bot
InitClosed ==
    /\ pc = "receive"
    /\ exit_code = NoExit
    /\ session = "ok"
    /\ creates = 1
    /\ stream_state = "open"
    /\ opens = 1
    /\ created = 1
    /\ subscribed_at = 0
    /\ cursor = 0
    /\ cur = NoComment
    /\ trigger_phrase = TRIGGER_PHRASE
    /\ trigger_normalized = Normalize(TRIGGER_PHRASE)
    /\ body_normalized = <<>>
    /\ trail = <<>>
    /\ delay = 0
    /\ replies = <<>>
    /\ run_attempts = 0
    /\ runs = 1
    /\ reply_text \in ReplyTexts
    /\ bot_replies = {}
    /\ delivered = 0
    /\ deliveries = 0
    /\ prev_trail = <<>>

NextClosed ==
    \/ StreamYields
    \/ CheckSelf
    \/ BodyRaises
    \/ Compare
    \/ ReplySucceeds
    \/ ReplyFails
    \/ Sleep

SpecClosed == InitClosed /\ [][NextClosed]_vars

\* -------------------------------------------------- the loop, with progress
\* monitor_comments at the top of its loop over a stream that stays open; the
\* identity lookup, the body read, the reply call and time.sleep each return
\* or raise, none of them blocks for ever. The stream itself may stay silent.
NextLive ==
    \/ NewComment
    \/ StreamYields
    \/ CheckSelf
    \/ BodyRaises
    \/ Compare
    \/ ReplySucceeds
    \/ ReplyFails
    \/ Sleep

Progress ==
    /\ WF_vars(CheckSelf)
    /\ WF_vars(BodyRaises \/ Compare)
    /\ WF_vars(ReplySucceeds \/ ReplyFails)
    /\ WF_vars(Sleep)

SpecLive == InitRedeliver /\ [][NextLive]_vars /\ Progress

\* ------------------------------------------------ the comparison on its own
\* monitor_comments called with any trigger phrase, at the comparison of a
\* delivered comment with any body
InitNorm ==
    /\ pc = "compare"
    /\ exit_code = NoExit
    /\ session = "ok"
    /\ creates = 1
    /\ stream_state = "open"
    /\ opens = 1
    /\ created = 1
    /\ subscribed_at = 0
    /\ cursor = 1
    /\ \E b \in BodiesUpTo(MaxLen) :
          cur = [id |-> 1, author |-> OtherName, body |-> b.text, body_raises |-> b.raises]
    /\ trigger_phrase \in StringsUpTo(MaxLen)
    /\ trigger_normalized = Normalize(trigger_phrase)
    /\ body_normalized = <<>>
    /\ trail = <<[ev |-> "me_ok", id |-> 1]>>
    /\ delay = 0
    /\ replies = <<>>
    /\ run_attempts = 0
    /\ runs = 1
    /\ reply_text = REPLY_TEXT
    /\ bot_replies = {}
    /\ delivered = 1
    /\ deliveries = 1
    /\ prev_trail = <<>>

NextNorm ==
    \/ BodyRaises
    \/ Compare
    \/ ReplySucceeds
    \/ ReplyFails
    \/ Sleep

SpecNorm == InitNorm /\ [][NextNorm]_vars

\* ------------------------------------------------------------------ claims
HasEv(e) == \E i \in 1..Len(trail) : trail[i].ev = e

LastEv == IF trail = <<>> THEN [ev |-> "none", id |-> 0] ELSE trail[Len(trail)]

\* comment.reply was called on the comment c
Attempted(c) == \E i \in 1..Len(replies) : replies[i] = c.id

\* the handling of cur is over
Finished == cur # NoComment /\ pc \in {"receive", "exited", "crashed"}

Compared == HasEv("match") \/ HasEv("no_match")

\* trim and case-insensitive equality, stated without Strip and Lower: the parts
\* between the first and the last non-whitespace character have the same length
\* and the same letters up to case
NonWs(s) == {i \in 1..Len(s) : s[i] \notin Whitespace}

Core(s) ==
    IF NonWs(s) = {} THEN <<>>
    ELSE SubSeq(s, CHOOSE i \in NonWs(s) : \A j \in NonWs(s) : i <= j,
                   CHOOSE i \in NonWs(s) : \A j \in NonWs(s) : i >= j)

SameLetter(c, d) == c = d \/ {c, d} = {"a", "A"}

TrimCaseEq(b, t) ==
    /\ Len(Core(b)) = Len(Core(t))
    /\ \A i \in 1..Len(Core(b)) : SameLetter(Core(b)[i], Core(t)[i])

SwapCase(s) ==
    [i \in 1..Len(s) |-> IF s[i] = "a" THEN "A" ELSE IF s[i] = "A" THEN "a" ELSE s[i]]

\* C1: a delivered comment that is not skipped as self-authored gets a reply
\* attempt if and only if its body, trimmed and case-folded, equals the trimmed
\* and case-folded trigger phrase.
C1_ReplyIffMatch ==
    (Finished /\ ~HasEv("skip") /\ ~cur.body_raises)
        => (Attempted(cur) <=> TrimCaseEq(cur.body, trigger_phrase))

C1_Witness ==
    /\ pc = "receive"
    /\ Attempted(cur)
    /\ cur.body # trigger_phrase
    /\ Len(cur.body) > Len(trigger_phrase)

\* C2: a comment whose author is the session's own account, with the identity
\* resolved, is never replied to, whatever its body.
C2_SelfNeverReplied ==
    (cur.author = BotName /\ HasEv("me_ok"))
        => (~Attempted(cur) /\ HasEv("skip") /\ pc # "reply")

C2_Witness ==
    /\ pc = "receive"
    /\ cur.author = BotName
    /\ HasEv("me_ok")
    /\ ~cur.body_raises
    /\ TrimCaseEq(cur.body, trigger_phrase)

\* C3: a failed reply attempt does not end the run: the error is logged with
\* the comment's id, the long delay is slept, and the loop is back at the
\* stream, where the next comment is taken.
C3_ReplyFailureRecovered ==
    HasEv("reply_failed") =>
        /\ \E i \in 1..Len(trail) - 1 :
              /\ trail[i] = [ev |-> "reply_failed", id |-> cur.id]
              /\ trail[i + 1] = [ev |-> "log_error", id |-> cur.id]
        /\ pc \in {"sleep", "receive"}
              \/ (pc \in {"crashed", "exited"} /\ stream_state \in {"ended", "raised"})
        /\ pc = "sleep" => (delay = LONG_DELAY /\ exit_code = NoExit)
        /\ pc # "sleep" => LastEv = [ev |-> "sleep", id |-> LONG_DELAY]
        /\ (pc = "receive" /\ cursor < created) => ENABLED StreamYields

C3_Witness ==
    /\ pc = "receive"
    /\ HasEv("reply_failed")
    /\ exit_code = NoExit
    /\ cursor < created

\* C4: when reddit.user.me() fails for a comment, the comment is not skipped
\* and the run does not end because of it: the comment goes to the
\* comparison and is replied to exactly if it matches.
C4_IdentityFailureIsNotSelf ==
    HasEv("me_failed") =>
        /\ ~HasEv("skip")
        /\ pc \in {"crashed", "exited"}
              => (stream_state \in {"ended", "raised"} \/ cur.body_raises)
        /\ ~cur.body_raises => (pc = "compare" \/ Compared)
        /\ (Finished /\ ~cur.body_raises)
              => (Attempted(cur) <=> TrimCaseEq(cur.body, trigger_phrase))
        /\ (pc = "receive" /\ cursor < created) => ENABLED StreamYields

C4_Witness ==
    /\ pc = "receive"
    /\ HasEv("me_failed")
    /\ cur.author = BotName
    /\ Attempted(cur)
    /\ cursor < created

C6_NeverReturnsNormally == exit_code # EXIT_OK /\ pc # "exited"

\* C6 as amended: the run ends normally, with exit code 0, exactly when the
\* comment sequence ends; when the sequence raises, the error leaves main and
\* the exit code is not 0; while the stream is open the run has not returned.
C6_ReturnsOnlyWhenStreamEnds ==
    /\ (exit_code = EXIT_OK \/ pc = "exited") <=> stream_state = "ended"
    /\ stream_state = "ended" => (pc = "exited" /\ exit_code = EXIT_OK)
    /\ stream_state = "raised" => (pc = "crashed" /\ exit_code = EXIT_ERROR)
    /\ stream_state = "open" => (pc # "exited" /\ exit_code # EXIT_OK)

C6_Witness ==
    /\ stream_state = "ended"
    /\ pc = "exited"
    /\ exit_code = EXIT_OK
    /\ Len(replies) > 0

\* C7: a failed create_reddit_instance ends the run at once with a non-zero
\* exit code: it was called once, no stream was opened, no comment was handled
\* and no reply was attempted.
C7_InitFailureFatal ==
    session = "failed" =>
        /\ pc = "crashed"
        /\ exit_code = EXIT_ERROR
        /\ creates = 1
        /\ opens = 0
        /\ stream_state = "closed"
        /\ cur = NoComment
        /\ run_attempts = 0

C7_Witness ==
    /\ session = "failed"
    /\ created > 0
    /\ pc = "crashed"

\* C8: comments are handled one at a time in arrival order: the comment in
\* handling is the last one taken from the stream, the loop is back at the
\* stream only after the reply attempt's delay has been slept, and the reply
\* attempts are in the order of arrival.
C8_OneAtATimeInOrder ==
    /\ \A i, j \in 1..Len(replies) : i < j => replies[i] < replies[j]
    /\ cur # NoComment => cur.id = cursor
    /\ pc \in {"self", "compare", "reply", "sleep"} => cur # NoComment
    /\ pc = "receive" => delay = 0
    /\ (pc = "receive" /\ Attempted(cur)) => LastEv.ev = "sleep"
    /\ ENABLED StreamYields => pc = "receive"

C8_Witness ==
    /\ pc = "sleep"
    /\ Len(replies) >= 2
    /\ replies[Len(replies)] = cur.id

\* C9: no comment created before the stream was opened is delivered to the
\* loop or replied to, in the first run and after a restart.
C9_SkipExisting ==
    /\ cur # NoComment => cur.id > subscribed_at
    /\ \A i \in 1..Len(replies) :
          i > Len(replies) - run_attempts => replies[i] > subscribed_at

C9_Witness ==
    /\ runs >= 2
    /\ subscribed_at >= 1
    /\ Attempted(cur)

\* C10: the match test gives the same answer when leading or trailing
\* whitespace is added or removed and when letter case is changed, on the
\* body or on the trigger phrase, and it is equality of the whole normalized
\* strings: a body that is the trigger phrase with one more non-whitespace
\* character before or after it does not match.
C10_MatchInvariantAndExact ==
    Compared =>
        LET m == HasEv("match")
            B == cur.body
            T == trigger_phrase
        IN /\ m = Matches(<<" ">> \o B, T)
           /\ m = Matches(B \o <<" ">>, T)
           /\ m = Matches(Core(B), T)
           /\ m = Matches(SwapCase(B), T)
           /\ m = Matches(B, <<" ">> \o T)
           /\ m = Matches(B, T \o <<" ">>)
           /\ m = Matches(B, Core(T))
           /\ m = Matches(B, SwapCase(T))
           /\ m => Len(Core(B)) = Len(Core(T))
           /\ \A c \in Alphabet \ Whitespace :
                 (B = T \o <<c>> \/ B = <<c>> \o T) => ~m

C10_Witness ==
    /\ HasEv("match")
    /\ SwapCase(trigger_phrase) # trigger_phrase
    /\ cur.body = <<" ">> \o SwapCase(trigger_phrase)

\* the reply outcomes recorded in a trail
ReplyEvs(t) == {i \in 1..Len(t) : t[i].ev \in {"reply_ok", "reply_failed"}}

EvsOf(t) == {t[i].ev : i \in 1..Len(t)}

\* the identity lookup and the reply call gave the same results in both trails
SameResults(t, u) ==
    /\ ("me_ok" \in EvsOf(t)) = ("me_ok" \in EvsOf(u))
    /\ ~("reply_ok" \in EvsOf(t) /\ "reply_failed" \in EvsOf(u))
    /\ ~("reply_failed" \in EvsOf(t) /\ "reply_ok" \in EvsOf(u))

\* C11: no memory of processed comments: a comment delivered again, with the
\* same identity-lookup and reply results, is handled exactly as before, and a
\* matching comment that is not skipped gets a reply attempt on every delivery.
C11_RedeliverySameOutcome ==
    (Finished /\ deliveries >= 2) =>
        /\ SameResults(trail, prev_trail) => trail = prev_trail
        /\ HasEv("match") =>
              (ReplyEvs(trail) # {} /\ replies[Len(replies)] = cur.id)
        /\ (HasEv("match") /\ "match" \in EvsOf(prev_trail)) =>
              (Len(replies) >= 2 /\ replies[Len(replies) - 1] = cur.id)
        /\ (~cur.body_raises /\ ~HasEv("skip")) =>
              (HasEv("match") <=> TrimCaseEq(cur.body, trigger_phrase))

C11_Witness ==
    /\ pc = "receive"
    /\ deliveries >= 2
    /\ "reply_ok" \in EvsOf(prev_trail)
    /\ HasEv("reply_ok")
    /\ trail = prev_trail

\* C12: the pause after a reply attempt depends only on its outcome: 2 after
\* a reply that succeeded, 5 after one that failed, the second greater than
\* the first; nothing else is followed by a pause.
C12_DelayByOutcome ==
    /\ SHORT_DELAY = 2
    /\ LONG_DELAY = 5
    /\ LONG_DELAY > SHORT_DELAY
    /\ pc = "sleep" =>
          /\ ReplyEvs(trail) # {}
          /\ HasEv("reply_ok") => delay = 2
          /\ HasEv("reply_failed") => delay = 5
    /\ (pc # "sleep" /\ HasEv("reply_ok")) => LastEv = [ev |-> "sleep", id |-> 2]
    /\ (pc # "sleep" /\ HasEv("reply_failed")) => LastEv = [ev |-> "sleep", id |-> 5]
    /\ HasEv("sleep") => ReplyEvs(trail) # {}

C12_Witness ==
    /\ pc = "receive"
    /\ Len(replies) >= 2
    /\ HasEv("reply_failed")
    /\ LastEv = [ev |-> "sleep", id |-> 5]

\* C13: a comment that does not match, and a comment skipped as self-authored,
\* cause nothing: no reply attempt, no log line, no delay; the loop is back at
\* the stream at once.
C13_NoActionWithoutMatch ==
    (HasEv("skip") \/ HasEv("no_match")) =>
        /\ ReplyEvs(trail) = {}
        /\ ~Attempted(cur)
        /\ ~HasEv("log_info") /\ ~HasEv("log_error") /\ ~HasEv("sleep")
        /\ delay = 0
        /\ LastEv.ev \in {"skip", "no_match"}
        /\ Len(trail) = 2
        /\ pc = "receive"
              \/ (pc \in {"crashed", "exited"} /\ stream_state \in {"ended", "raised"})

C13_Witness ==
    /\ pc = "receive"
    /\ HasEv("no_match")
    /\ Len(cur.body) = 2
    /\ cur.body[1] = "a"
    /\ cursor < created

\* C14 as claimed: with every successful reply coming back through the stream
\* as a comment of the bot, the bot never attempts a reply to one of its own
\* replies, so one comment of somebody else leads to at most one reply attempt.
C14_NoSelfReplyLoop ==
    /\ \A i \in 1..Len(replies) : replies[i] \notin bot_replies
    /\ Len(replies) <= 1

\* C14 as amended: a reply of the bot that comes back is skipped whenever the
\* identity lookup succeeds for it; a reply to an own reply is attempted only
\* when the lookup failed for that delivery and the reply text normalizes to
\* the trigger phrase; with a reply text that does not, one comment of somebody
\* else leads to at most one reply attempt.
C14_SelfReplyOnlyWhenIdentityUnknown ==
    /\ \A i \in 1..Len(replies) :
          replies[i] \in bot_replies => TrimCaseEq(reply_text, trigger_phrase)
    /\ (cur.id \in bot_replies /\ HasEv("me_ok")) =>
          (HasEv("skip") /\ ReplyEvs(trail) = {} /\ ~Attempted(cur))
    /\ (cur.id \in bot_replies /\ (pc = "reply" \/ ReplyEvs(trail) # {})) =>
          HasEv("me_failed")
    /\ ~TrimCaseEq(reply_text, trigger_phrase) => Len(replies) <= 1

C14_Witness ==
    /\ pc = "receive"
    /\ cur.id \in bot_replies
    /\ TrimCaseEq(reply_text, trigger_phrase)
    /\ HasEv("me_ok")
    /\ HasEv("skip")

\* C15 as claimed: the reply action log line is written only after a reply
\* that succeeded; a failed attempt leaves the error line and no action line.
C15_ActionLogOnlyOnSuccess ==
    /\ HasEv("reply_failed") => ~HasEv("log_info")
    /\ \A i \in 1..Len(trail) :
          trail[i].ev = "log_info" => \E j \in 1..(i - 1) : trail[j].ev = "reply_ok"

\* C15 as amended: the reply action log line is written before the reply call,
\* for every attempt, whether it then succeeds or fails; a failed attempt is
\* followed by the error line with the comment's id, a successful one is not.
C15_ActionLogBeforeEveryAttempt ==
    /\ \A i \in ReplyEvs(trail) :
          /\ i > 1
          /\ trail[i - 1] = [ev |-> "log_info", id |-> cur.id]
          /\ trail[i].ev = "reply_failed" =>
                (i < Len(trail) /\ trail[i + 1] = [ev |-> "log_error", id |-> cur.id])
    /\ HasEv("log_info") <=> ReplyEvs(trail) # {}
    /\ HasEv("log_error") <=> HasEv("reply_failed")

C15_Witness ==
    /\ pc = "sleep"
    /\ HasEv("log_info")
    /\ HasEv("reply_failed")
    /\ HasEv("log_error")

\* C16: the stream is opened once in a run; once it has ended or raised, the
\* run is over: no comment is received, no reply attempted, no stream opened.
C16_NoReconnect ==
    /\ opens <= 1
    /\ stream_state = "open" => opens = 1
    /\ stream_state \in {"ended", "raised"} =>
          /\ opens = 1
          /\ pc \in {"exited", "crashed"}
          /\ exit_code # NoExit
          /\ ~ENABLED StreamYields
          /\ ~ENABLED StartMonitor
          /\ ~ENABLED ReplySucceeds
          /\ ~ENABLED ReplyFails

C16_Witness ==
    /\ stream_state = "raised"
    /\ cursor < created
    /\ Len(replies) > 0

\* C17: a delivery leads to at most one reply attempt, a failed reply is not
\* tried again, so there are never more reply attempts than deliveries.
C17_AtMostOneAttemptPerDelivery ==
    /\ Cardinality(ReplyEvs(trail)) <= 1
    /\ run_attempts <= delivered
    /\ Len(replies) <= delivered
    /\ pc = "reply" => run_attempts < delivered

C17_Witness ==
    /\ pc = "receive"
    /\ HasEv("reply_failed")
    /\ delivered >= 2
    /\ run_attempts = delivered

\* C18: a comment without an author is not skipped, also when the identity
\* lookup succeeds: it goes to the comparison and is replied to exactly if it
\* matches.
C18_NoAuthorIsNotSelf ==
    (cur # NoComment /\ cur.author = NoAuthor /\ trail # <<>>) =>
        /\ ~HasEv("skip")
        /\ ~cur.body_raises => (pc = "compare" \/ Compared)
        /\ (Finished /\ ~cur.body_raises)
              => (Attempted(cur) <=> TrimCaseEq(cur.body, trigger_phrase))

C18_Witness ==
    /\ pc = "receive"
    /\ cur.author = NoAuthor
    /\ HasEv("me_ok")
    /\ Attempted(cur)

Outcomes == {"skip", "no_match", "reply_ok", "reply_failed"}

OneOutcome == Cardinality({e \in Outcomes : HasEv(e)}) = 1

====
